---------------------------- MODULE Spec2Model ----------------------------
(***************************************************************************)
(* Extraction pipeline and cross-document validation of docvalid           *)
(* (src/tasks.py, src/documents/models.py, src/documents/views.py).        *)
(*                                                                         *)
(* Text is a TLA+ string and is processed character by character, so the   *)
(* regular expressions of parse_text_for_metadata and Python's str.strip   *)
(* are computed, not assumed.  A JSON metadata value is a string; the JSON *)
(* number n is written "#n" (see PyStr, Truthy).                           *)
(***************************************************************************)
EXTENDS Integers, Sequences, FiniteSets, Bags, TLC

\* ------------------------------------------------------------------------
\* Characters and Python string primitives
\* ------------------------------------------------------------------------

Digits == {"0", "1", "2", "3", "4", "5", "6", "7", "8", "9"}

UpperSeq == "ABCDEFGHIJKLMNOPQRSTUVWXYZ"

LowerSeq == "abcdefghijklmnopqrstuvwxyz"

UpperLetters ==
    {"A", "B", "C", "D", "E", "F", "G", "H", "I", "J", "K", "L", "M",
     "N", "O", "P", "Q", "R", "S", "T", "U", "V", "W", "X", "Y", "Z"}

LowerLetters ==
    {"a", "b", "c", "d", "e", "f", "g", "h", "i", "j", "k", "l", "m",
     "n", "o", "p", "q", "r", "s", "t", "u", "v", "w", "x", "y", "z"}

\* \w of Python's re
WordChars == UpperLetters \cup LowerLetters \cup Digits \cup {"_"}

\* \s of Python's re (the whitespace that occurs in the modelled texts)
Space == {" ", "\t", "\n"}

\* s[i-1] of Python, "" when out of range
Ch(s, i) ==
    IF i >= 1 /\ i <= Len(s) THEN SubSeq(s, i, i) ELSE ""

\* s[a-1:b] of Python
Slice(s, a, b) ==
    IF a > b \/ a > Len(s) THEN ""
    ELSE SubSeq(s, a, IF b > Len(s) THEN Len(s) ELSE b)

\* position of character c in the alphabet seq
RECURSIVE IndexIn(_, _, _)
IndexIn(seq, c, i) ==
    IF SubSeq(seq, i, i) = c THEN i ELSE IndexIn(seq, c, i + 1)

UpperOf == [c \in LowerLetters |-> SubSeq(UpperSeq, IndexIn(LowerSeq, c, 1), IndexIn(LowerSeq, c, 1))]

\* c.upper() for one character
ToUpper(c) == IF c \in LowerLetters THEN UpperOf[c] ELSE c

Min(S) == CHOOSE x \in S : \A y \in S : x <= y

\* number of consecutive characters of class S starting at position p
RECURSIVE RunLen(_, _, _)
RunLen(s, p, S) ==
    IF Ch(s, p) \in S THEN 1 + RunLen(s, p + 1, S) ELSE 0

RECURSIVE RTrimEnd(_, _)
RTrimEnd(s, n) ==
    IF n >= 1 /\ Ch(s, n) \in Space THEN RTrimEnd(s, n - 1) ELSE n

\* str.strip()
Strip(s) ==
    Slice(s, 1 + RunLen(s, 1, Space), RTrimEnd(s, Len(s)))

\* re.sub(r'\s+', ' ', s)
RECURSIVE NormFrom(_, _)
NormFrom(s, p) ==
    IF p > Len(s) THEN ""
    ELSE IF Ch(s, p) \in Space
         THEN " " \o NormFrom(s, p + RunLen(s, p, Space))
         ELSE Ch(s, p) \o NormFrom(s, p + 1)

Normalize(s) == NormFrom(s, 1)

\* \b between s[i-2] and s[i-1] (1-based: just before position i)
Boundary(s, i) ==
    (Ch(s, i - 1) \in WordChars) # (Ch(s, i) \in WordChars)

\* the literal lit at position p, ignoring case
RECURSIVE LiteralAtCI(_, _, _, _)
LiteralAtCI(s, p, lit, k) ==
    IF k > Len(lit) THEN TRUE
    ELSE /\ ToUpper(Ch(s, p + k - 1)) = ToUpper(Ch(lit, k))
         /\ LiteralAtCI(s, p, lit, k + 1)

\* keep the characters of class S
RECURSIVE KeepOnly(_, _, _)
KeepOnly(s, p, S) ==
    IF p > Len(s) THEN ""
    ELSE (IF Ch(s, p) \in S THEN Ch(s, p) ELSE "") \o KeepOnly(s, p + 1, S)

NoMap == [k \in {} |-> ""]

\* ------------------------------------------------------------------------
\* Metadata Parser: parse_text_for_metadata (src/tasks.py:29-89)
\* ------------------------------------------------------------------------

CurrencyCodes == {"AED", "USD", "EUR", "GBP", "JPY", "CHF", "SAR", "INR"}

CurrencySymbols == {"$"}

\* r'\bHS[:\s]*([0-9]{4,10})\b', IGNORECASE: start of the digits, 0 if no match at p
HsDigitsAt(s, p) ==
    IF Boundary(s, p) /\ LiteralAtCI(s, p, "HS", 1)
    THEN LET q == p + 2 + RunLen(s, p + 2, {":"} \cup Space)
             n == RunLen(s, q, Digits)
         IN  IF n >= 4 /\ n <= 10 /\ Ch(s, q + n) \notin WordChars THEN q ELSE 0
    ELSE 0

\* r'\b([0-9]{6})\b'
SixDigitsAt(s, p) ==
    /\ Boundary(s, p)
    /\ RunLen(s, p, Digits) = 6
    /\ Ch(s, p + 6) \notin WordChars

ParseHsCode(sn) ==
    LET hs == {p \in 1..Len(sn) : HsDigitsAt(sn, p) > 0}
        fb == {p \in 1..Len(sn) : SixDigitsAt(sn, p)}
    IN  IF hs # {}
        THEN LET q == HsDigitsAt(sn, Min(hs))
             IN  "hs_code" :> Slice(sn, q, q + RunLen(sn, q, Digits) - 1)
        ELSE IF fb # {}
             THEN "hs_code" :> Slice(sn, Min(fb), Min(fb) + 5)
             ELSE NoMap

\* r'\b(AED|USD|EUR|GBP|JPY|CHF|SAR|INR)\b'
ParseCurrency(sn) ==
    LET cs == {p \in 1..Len(sn) : /\ Boundary(sn, p)
                                  /\ Slice(sn, p, p + 2) \in CurrencyCodes
                                  /\ Ch(sn, p + 3) \notin WordChars}
    IN  IF cs # {} THEN "currency" :> Slice(sn, Min(cs), Min(cs) + 2) ELSE NoMap

MinValueRun == 3

\* [\d\.,]{3,}\b at p, greedy with backtracking: the length matched, 0 if none
ValueRunAt(s, p) ==
    LET r  == RunLen(s, p, Digits \cup {".", ","})
        ok == {n \in MinValueRun..r : Boundary(s, p + n)}
    IN  IF ok = {} THEN 0 ELSE CHOOSE n \in ok : \A m \in ok : m <= n

\* r'([£€$]?\s?[\d\.,]{3,}\b)' at p: <<start of the run, its length>>, <<0, 0>> if none
ValueAt(s, p) ==
    LET sym == Ch(s, p) \in CurrencySymbols
    IN  IF sym /\ Ch(s, p + 1) \in Space /\ ValueRunAt(s, p + 2) > 0
        THEN <<p + 2, ValueRunAt(s, p + 2)>>
        ELSE IF sym /\ ValueRunAt(s, p + 1) > 0
        THEN <<p + 1, ValueRunAt(s, p + 1)>>
        ELSE IF Ch(s, p) \in Space /\ ValueRunAt(s, p + 1) > 0
        THEN <<p + 1, ValueRunAt(s, p + 1)>>
        ELSE IF ValueRunAt(s, p) > 0
        THEN <<p, ValueRunAt(s, p)>>
        ELSE <<0, 0>>

\* lines 55-60 with r'[^\d]' in place of r'[^\d\.]' at line 58
ParseValue_DropsDots(sn) ==
    LET vs == {p \in 1..Len(sn) : ValueAt(sn, p)[1] > 0}
    IN  IF vs = {} THEN NoMap
        ELSE LET m == ValueAt(sn, Min(vs))
                 v_clean == KeepOnly(Slice(sn, m[1], m[1] + m[2] - 1), 1, Digits)
             IN  IF v_clean # "" THEN "value" :> v_clean ELSE NoMap

\* lines 55-60
ParseValue(sn) ==
    LET vs == {p \in 1..Len(sn) : ValueAt(sn, p)[1] > 0}
    IN  IF vs = {} THEN NoMap
        ELSE LET m == ValueAt(sn, Min(vs))
                 v_clean == KeepOnly(Slice(sn, m[1], m[1] + m[2] - 1), 1,
                                     Digits \cup {"."})
             IN  IF v_clean # "" THEN "value" :> v_clean ELSE NoMap

\* r'\b([A-Z]{4}\d{7})\b'
ContainerAt(s, p) ==
    /\ Boundary(s, p)
    /\ \A i \in 0..3 : Ch(s, p + i) \in UpperLetters
    /\ \A i \in 4..10 : Ch(s, p + i) \in Digits
    /\ Ch(s, p + 11) \notin WordChars

ParseContainer(sn) ==
    LET cs == {p \in 1..Len(sn) : ContainerAt(sn, p)}
    IN  IF cs # {} THEN "container_number" :> Slice(sn, Min(cs), Min(cs) + 10)
        ELSE NoMap

\* r'\b(AWB[:\s-]*\w+|\d{3}\s?\d{8}|\bAWB[\w-]{3,}\b)\b', IGNORECASE:
\* the position after the match starting at p, 0 if none
AwbEndAt(s, p) ==
    LET q   == p + 3 + RunLen(s, p + 3, {":", "-"} \cup Space)
        w   == RunLen(s, q, WordChars)
        g   == IF Ch(s, p + 3) \in Space THEN 1 ELSE 0
        r   == RunLen(s, p + 3, WordChars \cup {"-"})
        ok3 == {n \in 3..r : Boundary(s, p + 3 + n)}
    IN  IF ~Boundary(s, p) THEN 0
        ELSE IF LiteralAtCI(s, p, "AWB", 1) /\ w > 0
        THEN q + w
        ELSE IF /\ \A i \in 0..2 : Ch(s, p + i) \in Digits
                /\ \A i \in 0..7 : Ch(s, p + 3 + g + i) \in Digits
                /\ Ch(s, p + 11 + g) \notin WordChars
        THEN p + 11 + g
        ELSE IF LiteralAtCI(s, p, "AWB", 1) /\ ok3 # {}
        THEN p + 3 + (CHOOSE n \in ok3 : \A m \in ok3 : m <= n)
        ELSE 0

ParseAwb(sn) ==
    LET as == {p \in 1..Len(sn) : AwbEndAt(sn, p) > 0}
    IN  IF as # {}
        THEN "bol_awb_number" :> Strip(Slice(sn, Min(as), AwbEndAt(sn, Min(as)) - 1))
        ELSE NoMap

MaxLabelField == 80

\* r'<label>[:\s]*(.{1,80}?)\s{2,}', IGNORECASE, at p: <<start, length>> of the
\* group; the separators are taken greedily, the group lazily
LabelColumnAt(s, p, label) ==
    LET p0 == p + Len(label)
        K  == RunLen(s, p0, {":"} \cup Space)
        fits(k, g) == /\ \A i \in 0..(g - 1) : Ch(s, p0 + k + i) \notin {"", "\n"}
                      /\ RunLen(s, p0 + k + g, Space) >= 2
        ks == {k \in 0..K : \E g \in 1..MaxLabelField : fits(k, g)}
    IN  IF ~LiteralAtCI(s, p, label, 1) \/ ks = {} THEN <<0, 0>>
        ELSE LET k == CHOOSE x \in ks : \A y \in ks : y <= x
             IN  <<p0 + k, Min({g \in 1..MaxLabelField : fits(k, g)})>>

\* r'<label>[:\s]*(\w[\w\s\,\-\.]{1,80})', IGNORECASE, at p
LabelWordsAt(s, p, label) ==
    LET q == p + Len(label) + RunLen(s, p + Len(label), {":"} \cup Space)
        r == RunLen(s, q + 1, WordChars \cup Space \cup {",", "-", "."})
    IN  IF LiteralAtCI(s, p, label, 1) /\ Ch(s, q) \in WordChars /\ r >= 1
        THEN <<q, 1 + (IF r > MaxLabelField THEN MaxLabelField ELSE r)>>
        ELSE <<0, 0>>

ParseLabel(s, label, key) ==
    LET cs == {p \in 1..Len(s) : LabelColumnAt(s, p, label)[1] > 0}
        ws == {p \in 1..Len(s) : LabelWordsAt(s, p, label)[1] > 0}
    IN  IF cs # {}
        THEN LET m == LabelColumnAt(s, Min(cs), label)
             IN  key :> Strip(Slice(s, m[1], m[1] + m[2] - 1))
        ELSE IF ws # {}
             THEN LET m == LabelWordsAt(s, Min(ws), label)
                  IN  key :> Strip(Slice(s, m[1], m[1] + m[2] - 1))
             ELSE NoMap

parse_text_for_metadata(text) ==
    IF text = "" THEN NoMap
    ELSE LET s_norm == Normalize(text)
         IN  ParseHsCode(s_norm) @@ ParseCurrency(s_norm) @@ ParseValue(s_norm)
             @@ ParseContainer(s_norm) @@ ParseAwb(s_norm)
             @@ ParseLabel(text, "Consignee", "consignee")
             @@ ParseLabel(text, "Shipper", "shipper")

\* ------------------------------------------------------------------------
\* JSON metadata values and the non-destructive merge (src/tasks.py:149-160)
\* ------------------------------------------------------------------------

\* str(v): the JSON number n is written "#n", a JSON string is itself
PyStr(v) == IF Ch(v, 1) = "#" THEN Slice(v, 2, Len(v)) ELSE v

\* bool(v): the empty string and the number 0 are falsy
Truthy(v) == v \notin {"", "#0"}

\* the order in which parse_text_for_metadata inserts its keys (dict order)
ParsedKeyOrder ==
    <<"hs_code", "currency", "value", "container_number", "bol_awb_number",
      "consignee", "shipper">>

\* parsed.items()
Items(parsed) ==
    SelectSeq(ParsedKeyOrder, LAMBDA k : k \in DOMAIN parsed)

\* the test of line 155: k not in meta or (not meta.get(k) and v)
ShouldSet(meta, k, v) ==
    k \notin DOMAIN meta \/ (~Truthy(meta[k]) /\ Truthy(v))

\* meta[k] = v
SetKey(meta, k, v) ==
    [j \in DOMAIN meta \cup {k} |-> IF j = k THEN v ELSE meta[j]]

\* the loop of lines 153-157 from the i-th item on: [meta, changed]
RECURSIVE MergeLoop(_, _, _, _)
MergeLoop(acc, parsed, ks, i) ==
    IF i > Len(ks) THEN acc
    ELSE IF ShouldSet(acc.meta, ks[i], parsed[ks[i]])
         THEN MergeLoop([meta |-> SetKey(acc.meta, ks[i], parsed[ks[i]]),
                         changed |-> TRUE], parsed, ks, i + 1)
         ELSE MergeLoop(acc, parsed, ks, i + 1)

MergeMetadata(meta, parsed) ==
    MergeLoop([meta |-> meta, changed |-> FALSE], parsed, Items(parsed), 1)

\* ------------------------------------------------------------------------
\* Text Extractor (src/tasks.py:91-118, 138-145).  The bytes of a file are
\* what the external libraries make of them: pdf (PyMuPDF and pdf2image can
\* open it), pages (the embedded text of each page), scans (the recognized
\* text of each rendered page), image (the recognized text of the file read
\* as one image, Unreadable if PIL cannot open it).
\* ------------------------------------------------------------------------

Unreadable == "\t<unreadable>"

RECURSIVE JoinWith(_, _, _)
JoinWith(parts, sep, i) ==
    IF i > Len(parts) THEN ""
    ELSE parts[i] \o (IF i < Len(parts) THEN sep ELSE "") \o JoinWith(parts, sep, i + 1)

NonEmpty(parts) == SelectSeq(parts, LAMBDA t : t # "")

extract_text_with_pymupdf(bytes) ==
    IF bytes.pdf THEN Strip(JoinWith(NonEmpty(bytes.pages), "\n", 1)) ELSE ""

ocr_pdf_images(bytes) ==
    IF bytes.pdf THEN Strip(JoinWith(NonEmpty(bytes.scans), "\n", 1))
    ELSE IF bytes.image # Unreadable THEN Strip(JoinWith(NonEmpty(<<bytes.image>>), "\n", 1))
    ELSE ""

MinDirectLen == 30

MaxTextLen == 100000

\* line 140: the recognition fallback is called
OcrAttempted(direct) == direct = "" \/ Len(Strip(direct)) < MinDirectLen

\* lines 139-143 with >= in place of > at line 142
ExtractText_OcrWinsTies(bytes) ==
    LET direct == extract_text_with_pymupdf(bytes)
        ocr_text == ocr_pdf_images(bytes)
    IN  IF OcrAttempted(direct)
        THEN IF ocr_text # "" /\ Len(Strip(ocr_text)) >= Len(direct)
             THEN ocr_text ELSE direct
        ELSE direct

\* lines 139-143: direct extraction, recognition fallback, longer wins
ExtractText(bytes) ==
    LET direct == extract_text_with_pymupdf(bytes)
        ocr_text == ocr_pdf_images(bytes)
    IN  IF OcrAttempted(direct)
        THEN IF ocr_text # "" /\ Len(Strip(ocr_text)) > Len(direct)
             THEN ocr_text ELSE direct
        ELSE direct

\* line 145: extracted[:100000] if extracted else ''
StoredText(extracted) ==
    IF extracted # "" THEN Slice(extracted, 1, MaxTextLen) ELSE ""

\* ------------------------------------------------------------------------
\* Validation Engine and Cross-Document Matcher (src/tasks.py:178-262)
\* ------------------------------------------------------------------------

TYPE_INVOICE == "invoice"

TYPE_PACKING == "packing_list"

TYPE_BOL == "bol_awb"

TYPE_DELIVERY == "delivery_order"

\* REQUIRED_FIELDS of src/tasks.py
REQUIRED_FIELDS ==
    [t \in {TYPE_INVOICE, TYPE_PACKING, TYPE_BOL, TYPE_DELIVERY} |->
        CASE t = TYPE_INVOICE  -> <<"hs_code", "goods_description", "value", "currency">>
          [] t = TYPE_PACKING  -> <<"packing_list_file">>
          [] t = TYPE_BOL      -> <<"bol_awb_file">>
          [] t = TYPE_DELIVERY -> <<"delivery_order_file">>]

possible_keys ==
    <<"hs_code", "consignee", "container_number", "value", "currency",
      "bol_awb_number", "shipper">>

required_types == <<TYPE_INVOICE, TYPE_PACKING, TYPE_BOL, TYPE_DELIVERY>>

Range(seq) == {seq[i] : i \in 1..Len(seq)}

\* repr of a Python list of strings, as an f-string prints it
RECURSIVE PyListItems(_, _)
PyListItems(seq, i) ==
    IF i > Len(seq) THEN ""
    ELSE "'" \o seq[i] \o "'" \o (IF i < Len(seq) THEN ", " ELSE "")
         \o PyListItems(seq, i + 1)

PyListRepr(seq) == "[" \o PyListItems(seq, 1) \o "]"

\* line 194-195: required fields without a DocumentFile row
MissingFiles(docs, fls, d) ==
    LET existing_files == {fls[f].field_name : f \in {g \in DOMAIN fls : fls[g].document = d}}
    IN  SelectSeq(REQUIRED_FIELDS[docs[d].doc_type], LAMBDA f : f \notin existing_files)

\* str(v).strip(), computed once for the values the scenarios hold
StrStripTable ==
    [v \in {"", " ", "8501", " 8501", "8502", "USD", " USD", " USD ", "AED", "#8501",
            "#100", "100", "Y Ltd", "9999", "#0", "fragile", "none"}
        |-> Strip(PyStr(v))]

StrStrip(v) ==
    IF v \in DOMAIN StrStripTable THEN StrStripTable[v] ELSE Strip(PyStr(v))

\* line 214
MatchKeys(doc_meta) ==
    [k \in {j \in Range(possible_keys) :
               j \in DOMAIN doc_meta /\ StrStrip(doc_meta[j]) # ""}
       |-> StrStrip(doc_meta[k])]

\* the comparison of lines 229-238 with the candidate's values left untrimmed
CandidateMatches_Untrimmed(match_keys, cand_meta) ==
    /\ \A k \in DOMAIN match_keys :
          k \in DOMAIN cand_meta /\ StrStrip(cand_meta[k]) # ""
    /\ \A k \in DOMAIN match_keys :
          PyStr(cand_meta[k]) = match_keys[k]

\* lines 229-238: the candidate's metadata agrees on every match key
CandidateMatches(match_keys, cand_meta) ==
    /\ \A k \in DOMAIN match_keys :
          k \in DOMAIN cand_meta /\ StrStrip(cand_meta[k]) # ""
    /\ \A k \in DOMAIN match_keys :
          StrStrip(cand_meta[k]) = match_keys[k]

\* line 226: the owner's documents of the type, the source excluded, in the
\* store's iteration order
Candidates(docs, d, dtype, order) ==
    SelectSeq(order, LAMBDA c : /\ c \in DOMAIN docs
                                /\ docs[c].uploader = docs[d].uploader
                                /\ docs[c].doc_type = dtype
                                /\ c # d)

\* lines 227-240: the first candidate that matches, 0 if none
RECURSIVE FirstMatch(_, _, _, _)
FirstMatch(docs, match_keys, cands, i) ==
    IF i > Len(cands) THEN 0
    ELSE IF CandidateMatches(match_keys, docs[cands[i]].metadata)
         THEN cands[i]
         ELSE FirstMatch(docs, match_keys, cands, i + 1)

\* lines 221-246 with no candidate accepted when match_keys is empty
Found_NoKeysNoMatch(docs, d, match_keys, order) ==
    [dtype \in Range(required_types) |->
        IF docs[d].doc_type = dtype THEN d
        ELSE IF match_keys = NoMap THEN 0
        ELSE FirstMatch(docs, match_keys, Candidates(docs, d, dtype, order), 1)]

\* lines 221-246: found[dtype], 0 standing for {'matched': False}
Found(docs, d, match_keys, order) ==
    [dtype \in Range(required_types) |->
        IF docs[d].doc_type = dtype THEN d
        ELSE FirstMatch(docs, match_keys, Candidates(docs, d, dtype, order), 1)]

MsgReady == "All related documents found and consistent. Ready for approval."

MsgMissingFiles == "Missing files for this document: "

MsgMissingTypes == "Missing or unmatched document types: "

\* lines 254-262 with elif in place of the second if
Message_FirstClauseOnly(ready, missing_files, missing_types) ==
    IF ready THEN MsgReady
    ELSE IF Len(missing_files) > 0
         THEN MsgMissingFiles \o PyListRepr(missing_files)
         ELSE IF Len(missing_types) > 0
              THEN MsgMissingTypes \o JoinWith(missing_types, ", ", 1)
              ELSE ""

\* lines 254-262
Message(ready, missing_files, missing_types) ==
    IF ready THEN MsgReady
    ELSE JoinWith(
           (IF Len(missing_files) > 0
            THEN <<MsgMissingFiles \o PyListRepr(missing_files)>> ELSE <<>>)
           \o
           (IF Len(missing_types) > 0
            THEN <<MsgMissingTypes \o JoinWith(missing_types, ", ", 1)>> ELSE <<>>),
           " | ", 1)

\* JSON null / Python None
Null == [null |-> TRUE]

\* line 189: doc.metadata or {}
OrEmpty(metadata) == IF metadata = Null THEN NoMap ELSE metadata

\* lines 188-262 with the test for missing metadata placed before line 193
ValidationPayload_ShortCircuitFirst(docs, fls, d, order) ==
    LET doc_meta == OrEmpty(docs[d].metadata)
        missing_files == MissingFiles(docs, fls, d)
    IN  IF doc_meta = NoMap
        THEN [missing_files |-> <<>>,
              ready_for_approval |-> FALSE,
              reason |-> "metadata_missing",
              message |-> "Document has no metadata."]
        ELSE LET match_keys == MatchKeys(doc_meta)
                 found == Found(docs, d, match_keys, order)
                 missing_types == SelectSeq(required_types, LAMBDA t : found[t] = 0)
                 ready == Len(missing_files) = 0 /\ Len(missing_types) = 0
             IN  [missing_files |-> missing_files,
                  match_keys |-> match_keys,
                  found_types |-> [t \in {u \in Range(required_types) : found[u] # 0}
                                     |-> [doc_id |-> found[t], matched |-> TRUE]],
                  missing_types |-> missing_types,
                  ready_for_approval |-> ready,
                  message |-> Message(ready, missing_files, missing_types)]

\* lines 188-262: the results payload computed from the store
ValidationPayload(docs, fls, d, order) ==
    LET doc_meta == OrEmpty(docs[d].metadata)
        missing_files == MissingFiles(docs, fls, d)
    IN  IF doc_meta = NoMap
        THEN [missing_files |-> missing_files,
              ready_for_approval |-> FALSE,
              reason |-> "metadata_missing",
              message |-> "Document has no metadata."]
        ELSE LET match_keys == MatchKeys(doc_meta)
                 found == Found(docs, d, match_keys, order)
                 missing_types == SelectSeq(required_types, LAMBDA t : found[t] = 0)
                 ready == Len(missing_files) = 0 /\ Len(missing_types) = 0
             IN  [missing_files |-> missing_files,
                  match_keys |-> match_keys,
                  found_types |-> [t \in {u \in Range(required_types) : found[u] # 0}
                                     |-> [doc_id |-> found[t], matched |-> TRUE]],
                  missing_types |-> missing_types,
                  ready_for_approval |-> ready,
                  message |-> Message(ready, missing_files, missing_types)]

\* ------------------------------------------------------------------------
\* The store (src/documents/models.py) and the running tasks
\* ------------------------------------------------------------------------

VARIABLES
    documents,           \* TradeDocument rows: id -> [doc_type, uploader, status, metadata, last_validation]
    files,               \* DocumentFile rows: id -> [document, field_name, extraction_status, extracted_text]
    validation_results,  \* ValidationResult rows, in creation order
    audit_log,           \* AuditLog rows, as a bag: the rows without their ids and timestamps
    tasks,               \* the frame of each extract_text_and_parse_task invocation
    faults,              \* store and storage operations that have raised so far
    edits,               \* manual metadata edits made so far
    pinned,              \* per document, the keys last set by hand to a non-empty value after a run
    call,                \* argument of a pure function under check
    result               \* its value

vars ==
    <<documents, files, validation_results, audit_log, tasks, faults, edits,
      pinned, call, result>>

STATUS_PENDING == "pending"

STATUS_RUNNING == "running"

STATUS_DONE == "done"

STATUS_FAILED == "failed"

\* bounds of the model
MaxTasks == 2

MaxFaults == 1

MaxEdits == 1

TaskIds == 1..MaxTasks

\* the bytes of the two files the tasks of the scenario are run on
InvoiceScan ==
    [pdf |-> TRUE, pages |-> <<"HS: 8501 USD">>, scans |-> <<"">>, image |-> Unreadable]

ConsigneeScan ==
    [pdf |-> FALSE, pages |-> <<>>, scans |-> <<>>, image |-> "Consignee: Y Ltd  Dubai\n"]

BlankScan ==
    [pdf |-> FALSE, pages |-> <<>>, scans |-> <<>>, image |-> Unreadable]

RelatedMeta ==
    [hs_code |-> "8501", currency |-> " USD", value |-> "#8501", consignee |-> "Y Ltd"]

\* metadata the uploader may have sent with the invoice
InitMetas == {[currency |-> ""]}

Document(type, owner, meta) ==
    [doc_type |-> type, uploader |-> owner, status |-> "pending",
     metadata |-> meta, last_validation |-> Null]

DocumentFile(d, field) ==
    [document |-> d, field_name |-> field,
     extraction_status |-> STATUS_PENDING, extracted_text |-> Null]

\* hand edits of the invoice's metadata (Django admin)
ManualEdits == {<<"hs_code", "9999">>, <<"value", "#0">>}

NewFrame ==
    [pc |-> "queued", id |-> 0, doc |-> 0, meta |-> NoMap, extracted |-> "",
     parsed |-> NoMap, results |-> Null, exc |-> "", ret |-> Null,
     \* history kept for the properties: the text this run stored, the results
     \* its validation computed, the ValidationResult row it created, the
     \* exception its except clause was handling
     wrote |-> <<>>, validated |-> Null, row |-> 0, handled |-> ""]

ScenarioFiles ==
    (1 :> DocumentFile(1, "hs_code"))
    @@ (2 :> DocumentFile(1, "goods_description"))
    @@ (3 :> DocumentFile(1, "value"))
    @@ (4 :> DocumentFile(1, "currency"))

\* an id that no DocumentFile row has
MissingFileId == Cardinality(DOMAIN ScenarioFiles) + 1

\* ids the task may be invoked with
TaskArgs == {1, 2, MissingFileId}

\* what df.file.path holds for each DocumentFile; the bytes never change
FileBytes ==
    (1 :> InvoiceScan) @@ (2 :> ConsigneeScan) @@ (3 :> BlankScan) @@ (4 :> BlankScan)

\* parse_text_for_metadata, computed once for the texts the scenario's files hold
ParsedScenarioText ==
    [text \in {ExtractText(FileBytes[f]) : f \in DOMAIN FileBytes}
        |-> parse_text_for_metadata(text)]

Parse(text) ==
    IF text \in DOMAIN ParsedScenarioText THEN ParsedScenarioText[text]
    ELSE parse_text_for_metadata(text)

ScenarioDocuments(meta) ==
    (1 :> Document(TYPE_INVOICE, "alice", meta))
    @@ (2 :> Document(TYPE_PACKING, "alice", RelatedMeta))
    @@ (3 :> Document(TYPE_BOL, "alice", RelatedMeta))
    @@ (4 :> Document(TYPE_DELIVERY, "alice", RelatedMeta))

Init ==
    /\ \E meta \in InitMetas : documents = ScenarioDocuments(meta)
    /\ files = ScenarioFiles
    /\ validation_results = <<>>
    /\ audit_log = EmptyBag
    /\ tasks = [t \in TaskIds |-> NewFrame]
    /\ faults = 0
    /\ edits = 0
    /\ pinned = [d \in 1..4 |-> NoMap]
    /\ call = Null
    /\ result = Null

RECURSIVE Ascending(_)
Ascending(ids) ==
    IF ids = {} THEN <<>> ELSE <<Min(ids)>> \o Ascending(ids \ {Min(ids)})

Reverse(seq) == [i \in 1..Len(seq) |-> seq[Len(seq) + 1 - i]]

\* the orders in which an unordered queryset may iterate over the rows: by
\* ascending or descending primary key (every order of the candidates of one
\* type, as long as a type has at most two)
Orders(ids) == {Ascending(ids), Reverse(Ascending(ids))}

\* the frame of an invocation that has returned ret: its locals are gone
Return(frame, id, doc, ret) ==
    [NewFrame EXCEPT !.pc = "returned", !.id = id, !.doc = doc, !.exc = frame.exc,
                     !.ret = ret, !.wrote = frame.wrote, !.validated = frame.validated,
                     !.row = frame.row]

InFlight(t) == tasks[t].pc \notin {"queued", "returned", "raised"}

\* an AuditLog.objects.create inside try/except: pass
AuditCreate(ok, action, ref) ==
    audit_log' = IF ok THEN audit_log (+) SetToBag({[action |-> action, ref |-> ref]})
                 ELSE audit_log

MayFail(ok) == ok \/ faults < MaxFaults

Raise(t, what) ==
    /\ faults < MaxFaults
    /\ faults' = faults + 1
    /\ tasks' = [tasks EXCEPT ![t] = [Return(tasks[t], tasks[t].id, tasks[t].doc, Null)
                                         EXCEPT !.pc = "raised", !.exc = what,
                                                !.handled = tasks[t].exc]]

Catch(t, what) ==
    /\ faults < MaxFaults
    /\ faults' = faults + 1
    /\ tasks' = [tasks EXCEPT ![t].pc = "handler", ![t].exc = what]

\* ------------------------------------------------------------------------
\* extract_text_and_parse_task (src/tasks.py:120-176)
\* ------------------------------------------------------------------------

\* lines 127-130 with the missing row escalated as a failed extraction: an
\* 'extraction_failed' audit entry is written before the task returns
Lookup_AuditsNotFound(t, id) ==
    /\ tasks[t].pc = "queued"
    /\ \A u \in TaskIds : u < t => tasks[u].pc # "queued"
    /\ IF id \in DOMAIN files
       THEN /\ tasks' = [tasks EXCEPT ![t].pc = "set_running", ![t].id = id,
                                      ![t].doc = files[id].document,
                                      ![t].meta = documents[files[id].document].metadata]
            /\ UNCHANGED audit_log
       ELSE /\ tasks' = [tasks EXCEPT ![t] = Return(NewFrame, id, 0,
                                      [status |-> "failed", error |-> "DocumentFile not found"])]
            /\ AuditCreate(TRUE, "extraction_failed", id)
    /\ UNCHANGED <<documents, files, validation_results, faults, edits,
                   pinned, call, result>>

\* lines 127-130: DocumentFile.objects.select_related('document').get(pk=id)
Lookup(t, id) ==
    /\ tasks[t].pc = "queued"
    /\ \A u \in TaskIds : u < t => tasks[u].pc # "queued"
    /\ IF id \in DOMAIN files
       THEN tasks' = [tasks EXCEPT ![t].pc = "set_running", ![t].id = id,
                                   ![t].doc = files[id].document,
                                   ![t].meta = documents[files[id].document].metadata]
       ELSE tasks' = [tasks EXCEPT ![t] = Return(NewFrame, id, 0,
                                   [error |-> "DocumentFile not found", id |-> id])]
    /\ UNCHANGED <<documents, files, validation_results, audit_log, faults, edits,
                   pinned, call, result>>

\* lines 132-133, outside the try
SetRunning(t) ==
    /\ tasks[t].pc = "set_running"
    /\ \/ /\ files' = [files EXCEPT ![tasks[t].id].extraction_status = STATUS_RUNNING]
          /\ tasks' = [tasks EXCEPT ![t].pc = "extract"]
          /\ UNCHANGED faults
       \/ /\ Raise(t, "save extraction_status")
          /\ UNCHANGED files
    /\ UNCHANGED <<documents, validation_results, audit_log, edits, pinned, call, result>>

\* lines 135-147: df.file.path (outside the try), extraction, df.save of text and status
Extract(t) ==
    /\ tasks[t].pc = "extract"
    /\ \/ /\ Raise(t, "file.path")
          /\ UNCHANGED files
       \/ LET extracted == ExtractText(FileBytes[tasks[t].id])
          IN  \/ /\ files' = [files EXCEPT
                               ![tasks[t].id].extracted_text = StoredText(extracted),
                               ![tasks[t].id].extraction_status = STATUS_DONE]
                 /\ tasks' = [tasks EXCEPT ![t].pc = "merge", ![t].extracted = extracted,
                                             ![t].wrote = <<StoredText(extracted)>>]
                 /\ UNCHANGED faults
              \/ /\ Catch(t, "save extracted_text")
                 /\ UNCHANGED files
    /\ UNCHANGED <<documents, validation_results, audit_log, edits, pinned, call, result>>

\* lines 149-164 with the audit write of line 162 outside its try/except: a
\* failed write reaches the except clause of line 169
Merge_AuditFailureCaught(t) ==
    /\ tasks[t].pc = "merge"
    /\ LET parsed == Parse(tasks[t].extracted)
           m == MergeMetadata(tasks[t].meta, parsed)
       IN  IF parsed # NoMap /\ m.changed
           THEN \/ \E ok \in BOOLEAN :
                      /\ MayFail(ok)
                      /\ documents' = [documents EXCEPT ![tasks[t].doc].metadata = m.meta]
                      /\ AuditCreate(ok, "metadata_auto_extracted", tasks[t].doc)
                      /\ faults' = IF ok THEN faults ELSE faults + 1
                      /\ tasks' = IF ok
                                  THEN [tasks EXCEPT ![t].pc = "validate",
                                                     ![t].parsed = parsed, ![t].meta = m.meta]
                                  ELSE [tasks EXCEPT ![t].pc = "handler",
                                                     ![t].exc = "create audit entry"]
                \/ /\ Catch(t, "save metadata")
                   /\ UNCHANGED <<documents, audit_log>>
           ELSE /\ tasks' = [tasks EXCEPT ![t].pc = "validate", ![t].parsed = parsed]
                /\ UNCHANGED <<documents, audit_log, faults>>
    /\ UNCHANGED <<files, validation_results, edits, pinned, call, result>>

\* lines 149-164: parse, merge into the document loaded by Lookup, save, audit
Merge(t) ==
    /\ tasks[t].pc = "merge"
    /\ LET parsed == Parse(tasks[t].extracted)
           m == MergeMetadata(tasks[t].meta, parsed)
       IN  IF parsed # NoMap /\ m.changed
           THEN \/ \E ok \in BOOLEAN :
                      /\ MayFail(ok)
                      /\ documents' = [documents EXCEPT ![tasks[t].doc].metadata = m.meta]
                      /\ AuditCreate(ok, "metadata_auto_extracted", tasks[t].doc)
                      /\ faults' = IF ok THEN faults ELSE faults + 1
                      /\ tasks' = [tasks EXCEPT ![t].pc = "validate", ![t].parsed = parsed,
                                                ![t].meta = m.meta]
                \/ /\ Catch(t, "save metadata")
                   /\ UNCHANGED <<documents, audit_log>>
           ELSE /\ tasks' = [tasks EXCEPT ![t].pc = "validate", ![t].parsed = parsed]
                /\ UNCHANGED <<documents, audit_log, faults>>
    /\ UNCHANGED <<files, validation_results, edits, pinned, call, result>>

\* run_validation_for_document, lines 183-262: read the store, compute the payload
ValidateRead(t) ==
    /\ tasks[t].pc = "validate"
    /\ \/ \E order \in Orders(DOMAIN documents) :
             LET results == ValidationPayload(documents, files, tasks[t].doc, order)
             IN  tasks' = [tasks EXCEPT ![t].pc = "val_create", ![t].results = results,
                                        ![t].validated = results]
          /\ UNCHANGED faults
       \/ Catch(t, "validation query")
    /\ UNCHANGED <<documents, files, validation_results, audit_log, edits, pinned,
                   call, result>>

\* lines 264-267 with update_or_create(document=doc) in place of create
ValidateCreate_UpdateOrCreate(t) ==
    /\ tasks[t].pc = "val_create"
    /\ \E ok \in BOOLEAN :
          /\ MayFail(ok)
          /\ faults' = IF ok THEN faults ELSE faults + 1
          /\ LET row == [document |-> tasks[t].doc, result |-> tasks[t].results,
                         run_by |-> Null]
                 old == {i \in 1..Len(validation_results) :
                            validation_results[i].document = tasks[t].doc}
             IN  /\ validation_results' =
                       IF ~ok THEN validation_results
                       ELSE IF old = {} THEN Append(validation_results, row)
                       ELSE [validation_results EXCEPT ![Min(old)] = row]
                 /\ tasks' = [tasks EXCEPT
                                ![t].pc = "val_save",
                                ![t].row = IF ~ok THEN 0
                                           ELSE IF old = {} THEN Len(validation_results) + 1
                                           ELSE Min(old)]
    /\ UNCHANGED <<documents, files, audit_log, edits, pinned, call, result>>

\* lines 264-267: ValidationResult.objects.create inside try/except: pass
ValidateCreate(t) ==
    /\ tasks[t].pc = "val_create"
    /\ \E ok \in BOOLEAN :
          /\ MayFail(ok)
          /\ faults' = IF ok THEN faults ELSE faults + 1
          /\ validation_results' =
                IF ok THEN Append(validation_results,
                                  [document |-> tasks[t].doc, result |-> tasks[t].results,
                                   run_by |-> Null])
                ELSE validation_results
          /\ tasks' = [tasks EXCEPT ![t].pc = "val_save",
                                     ![t].row = IF ok THEN Len(validation_results) + 1 ELSE 0]
    /\ UNCHANGED <<documents, files, audit_log, edits, pinned, call, result>>

\* lines 268-275 and 168: save last_validation, audit, return to the task, which returns
ValidateSave(t) ==
    /\ tasks[t].pc = "val_save"
    /\ \/ \E ok \in BOOLEAN :
             /\ MayFail(ok)
             /\ faults' = IF ok THEN faults ELSE faults + 1
             /\ documents' = [documents EXCEPT ![tasks[t].doc].last_validation = tasks[t].results]
             /\ AuditCreate(ok, "run_validation_auto", tasks[t].doc)
             /\ tasks' = [tasks EXCEPT ![t] = Return(@, @.id, @.doc,
                            [status |-> "done", document_file_id |-> @.id,
                             parsed |-> @.parsed])]
       \/ /\ Catch(t, "save last_validation")
          /\ UNCHANGED <<documents, audit_log>>
    /\ UNCHANGED <<files, validation_results, edits, pinned, call, result>>

\* lines 169-176: the except clause
Handler(t) ==
    /\ tasks[t].pc = "handler"
    /\ \/ \E ok \in BOOLEAN :
             /\ MayFail(ok)
             /\ faults' = IF ok THEN faults ELSE faults + 1
             /\ files' = [files EXCEPT ![tasks[t].id].extraction_status = STATUS_FAILED]
             /\ AuditCreate(ok, "extraction_failed", tasks[t].id)
             /\ tasks' = [tasks EXCEPT ![t] = Return(@, @.id, @.doc,
                            [status |-> "failed", error |-> @.exc])]
       \/ /\ Raise(t, "save extraction_status in except")
          /\ UNCHANGED <<files, audit_log>>
    /\ UNCHANGED <<documents, validation_results, edits, pinned, call, result>>

\* an empty value
Blank(v) == v = ""

\* a hand edit of a document's metadata through the admin site
\* (src/documents/admin.py:4)
ManualSet(d, k, v) ==
    /\ edits < MaxEdits
    /\ edits' = edits + 1
    /\ documents' = [documents EXCEPT ![d].metadata = SetKey(@, k, v)]
    /\ pinned' = [pinned EXCEPT ![d] =
                    IF /\ ~Blank(v)
                       /\ \E t \in TaskIds : tasks[t].pc = "returned" /\ tasks[t].wrote # <<>>
                       /\ \A t \in TaskIds : ~InFlight(t)
                    THEN SetKey(@, k, v)
                    ELSE [j \in DOMAIN @ \ {k} |-> @[j]]]
    /\ UNCHANGED <<files, validation_results, audit_log, tasks, faults, call, result>>

Next ==
    \/ \E t \in TaskIds, id \in TaskArgs : Lookup(t, id)
    \/ \E t \in TaskIds : SetRunning(t)
    \/ \E t \in TaskIds : Extract(t)
    \/ \E t \in TaskIds : Merge(t)
    \/ \E t \in TaskIds : ValidateRead(t)
    \/ \E t \in TaskIds : ValidateCreate(t)
    \/ \E t \in TaskIds : ValidateSave(t)
    \/ \E t \in TaskIds : Handler(t)

Spec == Init /\ [][Next]_vars

Quiescent == \A t \in TaskIds : ~InFlight(t)

\* the task re-run on the same files, one invocation at a time, with hand edits
\* of the invoice's metadata between the runs
NextRerun ==
    \/ \E t \in TaskIds, id \in TaskArgs : Quiescent /\ Lookup(t, id)
    \/ \E t \in TaskIds : SetRunning(t)
    \/ \E t \in TaskIds : Extract(t)
    \/ \E t \in TaskIds : Merge(t)
    \/ \E t \in TaskIds : ValidateRead(t)
    \/ \E t \in TaskIds : ValidateCreate(t)
    \/ \E t \in TaskIds : ValidateSave(t)
    \/ \E t \in TaskIds : Handler(t)
    \/ \E e \in ManualEdits : Quiescent /\ ManualSet(1, e[1], e[2])

SpecRerun == Init /\ [][NextRerun]_vars


\* ------------------------------------------------------------------------
\* The merge step alone (src/tasks.py:150-157), over bounded inputs
\* ------------------------------------------------------------------------

\* every mapping from a subset of keys to vals
Maps(keys, vals) == UNION {[S -> vals] : S \in SUBSET keys}

MergeKeys == {"value", "consignee"}

\* values an existing key may hold: empty, whitespace, text, the numbers 0 and 7
MetaValues == {"", " ", "Y Ltd", "#0", "#7"}

\* values the parser may give a key (every parsed value is a string)
ParsedValues == {"", "8501"}

InitMerge ==
    /\ call \in {[meta |-> m, parsed |-> q] :
                    m \in Maps(MergeKeys, MetaValues), q \in Maps(MergeKeys, ParsedValues)}
    /\ result = Null
    /\ documents = ScenarioDocuments(NoMap)
    /\ files = ScenarioFiles
    /\ validation_results = <<>>
    /\ audit_log = EmptyBag
    /\ tasks = [t \in TaskIds |-> NewFrame]
    /\ faults = 0
    /\ edits = 0
    /\ pinned = [d \in 1..4 |-> NoMap]

\* lines 150-157 applied to the input
MergeStep ==
    /\ result = Null
    /\ result' = MergeMetadata(call.meta, call.parsed)
    /\ UNCHANGED <<documents, files, validation_results, audit_log, tasks, faults,
                   edits, pinned, call>>

SpecMerge == InitMerge /\ [][MergeStep]_vars

\* ------------------------------------------------------------------------
\* run_validation_for_document alone (src/tasks.py:178-275), over bounded stores
\* ------------------------------------------------------------------------

MaxRuns == 1

\* metadata with none of the candidate fields present and non-blank
UnkeyedMeta == [hs_code |-> " ", remarks |-> "fragile"]

\* metadata of the document under validation
SourceMetas ==
    {NoMap, Null, UnkeyedMeta,
     [hs_code |-> "8501", currency |-> " USD ", remarks |-> "fragile"],
     [hs_code |-> " ", value |-> "#100", currency |-> ""]}

\* metadata of the documents it is matched against
CandidateMetas ==
    {[hs_code |-> " 8501", currency |-> "USD", value |-> "100", remarks |-> "none"],
     [hs_code |-> "8501", currency |-> "AED", value |-> "#100"],
     [hs_code |-> "8502", value |-> " "]}

\* the DocumentFile rows the invoice may have: all four required, or two of them
FileSets ==
    {ScenarioFiles, [f \in {1, 3} |-> ScenarioFiles[f]]}

ValidateStores ==
    {(1 :> Document(TYPE_INVOICE, "alice", m1))
     @@ (2 :> Document(TYPE_PACKING, o2, m2))
     @@ (3 :> Document(TYPE_PACKING, "alice", m3))
     @@ (4 :> Document(TYPE_BOL, "alice", m4))
     @@ (5 :> Document(TYPE_DELIVERY, "alice", m3)) :
        m1 \in SourceMetas, o2 \in {"alice", "bob"},
        m2 \in CandidateMetas \cup {UnkeyedMeta}, m3 \in CandidateMetas,
        m4 \in CandidateMetas}

InitValidate ==
    /\ documents \in ValidateStores
    /\ files \in FileSets
    /\ validation_results = <<>>
    /\ audit_log = EmptyBag
    /\ tasks = [t \in TaskIds |-> NewFrame]
    /\ faults = 0
    /\ edits = 0
    /\ pinned = [d \in 1..4 |-> NoMap]
    /\ call = Null
    /\ result = Null

\* the call with doc.metadata = doc_meta and a doc.save() of the whole row in
\* place of save(update_fields=['last_validation'])
RunValidation_SavesWholeRow(d) ==
    /\ Len(validation_results) < MaxRuns
    /\ \E order \in Orders(DOMAIN documents) :
          LET results == ValidationPayload(documents, files, d, order)
          IN  /\ validation_results' =
                    Append(validation_results,
                           [document |-> d, result |-> results, run_by |-> Null])
              /\ documents' = [documents EXCEPT ![d].last_validation = results,
                                                ![d].metadata = OrEmpty(@)]
              /\ AuditCreate(TRUE, "run_validation_auto", d)
              /\ call' = [document_id |-> d, order |-> order]
              /\ result' = results
    /\ UNCHANGED <<files, tasks, faults, edits, pinned>>

\* one call of run_validation_for_document(d) in which no store operation fails
RunValidation(d) ==
    /\ Len(validation_results) < MaxRuns
    /\ \E order \in Orders(DOMAIN documents) :
          LET results == ValidationPayload(documents, files, d, order)
          IN  /\ validation_results' =
                    Append(validation_results,
                           [document |-> d, result |-> results, run_by |-> Null])
              /\ documents' = [documents EXCEPT ![d].last_validation = results]
              /\ AuditCreate(TRUE, "run_validation_auto", d)
              /\ call' = [document_id |-> d, order |-> order]
              /\ result' = results
    /\ UNCHANGED <<files, tasks, faults, edits, pinned>>

NextValidate == \E d \in DOMAIN documents : RunValidation(d)

SpecValidate == InitValidate /\ [][NextValidate]_vars


\* ------------------------------------------------------------------------
\* Properties
\* ------------------------------------------------------------------------

Finished(t) == tasks[t].pc \in {"returned", "raised"}

ReturnedDone(t) ==
    /\ tasks[t].pc = "returned"
    /\ "status" \in DOMAIN tasks[t].ret
    /\ tasks[t].ret.status = "done"

\* C1: under any interleaving of pipeline runs for files of one document, a
\* metadata key that holds a non-blank value is never deleted and never has
\* its value changed by a step of a run.
C1_NonBlankKeysKept ==
    [][\A d \in DOMAIN documents :
          \A k \in DOMAIN documents[d].metadata :
             ~Blank(documents[d].metadata[k])
                => /\ k \in DOMAIN documents'[d].metadata
                   /\ documents'[d].metadata[k] = documents[d].metadata[k]]_vars

\* M united with the parsed keys that M lacks or holds blank
BlankFill(M, P) ==
    [k \in DOMAIN M \cup DOMAIN P |->
        IF k \in DOMAIN P /\ (k \notin DOMAIN M \/ Blank(M[k])) THEN P[k] ELSE M[k]]

\* C2: for every existing mapping M and parsed mapping P the merge step yields
\* exactly M united with {k: P[k] for k in P if k not in M or M[k] is blank}.
C2_MergeIsBlankFill ==
    result # Null => result.meta = BlankFill(call.meta, call.parsed)

\* C3: two runs of the task on the same DocumentFile store the same extracted
\* text and return the same parsed fields, and a metadata key set by hand to a
\* non-blank value between the runs keeps that value.
C3_RerunKeepsTextParsedAndManualKeys ==
    /\ \A t1 \in TaskIds, t2 \in TaskIds :
          (ReturnedDone(t1) /\ ReturnedDone(t2) /\ tasks[t1].id = tasks[t2].id)
             => /\ tasks[t1].wrote = tasks[t2].wrote
                /\ tasks[t1].ret.parsed = tasks[t2].ret.parsed
    /\ \A d \in DOMAIN pinned :
          \A k \in DOMAIN pinned[d] :
             /\ k \in DOMAIN documents[d].metadata
             /\ documents[d].metadata[k] = pinned[d][k]

\* the runs that were started on DocumentFile f
RunsOn(f) == {t \in TaskIds : tasks[t].pc # "queued" /\ tasks[t].id = f}

\* C4: a run on an existing DocumentFile never lets an exception cross the task
\* boundary; when a step after the lookup fails the run returns a structured
\* failure and the file's status ends as failed; no finished run leaves the
\* status at running.
C4_FailuresEndAsFailed ==
    /\ \A t \in TaskIds : tasks[t].pc # "raised"
    /\ \A f \in DOMAIN files :
          (RunsOn(f) # {} /\ \A t \in RunsOn(f) : Finished(t))
             => /\ files[f].extraction_status # STATUS_RUNNING
                /\ \A t \in RunsOn(f) :
                      (RunsOn(f) = {t} /\ tasks[t].exc # "")
                         => /\ files[f].extraction_status = STATUS_FAILED
                            /\ tasks[t].ret # Null
                            /\ tasks[t].ret.status = "failed"

\* C5: the extraction status of a DocumentFile only moves to running (a run or
\* a retry starts) or from running to done or failed; never from done to failed
\* or from failed to done.
C5_StatusOneDirectional ==
    [][\A f \in DOMAIN files :
          files'[f].extraction_status # files[f].extraction_status
             => \/ files'[f].extraction_status = STATUS_RUNNING
                \/ /\ files[f].extraction_status = STATUS_RUNNING
                   /\ files'[f].extraction_status \in {STATUS_DONE, STATUS_FAILED}]_vars

\* C8: when validation of a document runs while one of its DocumentFiles is in
\* status failed, the file's field is reported in missing_files and
\* ready_for_approval is false.
C8_FailedFileCountsAsMissing ==
    [][\A t \in TaskIds :
          (tasks[t].pc = "validate" /\ tasks'[t].pc = "val_create")
             => \A f \in DOMAIN files :
                   (files[f].document = tasks[t].doc
                    /\ files[f].extraction_status = STATUS_FAILED)
                      => /\ files[f].field_name \in Range(tasks'[t].results.missing_files)
                         /\ ~tasks'[t].results.ready_for_approval]_vars

\* the runs whose validation computed a payload for document d
ValidationRuns(d) == {t \in TaskIds : tasks[t].doc = d /\ tasks[t].validated # Null}

C10_ValidationNeverRaises ==
    \A t \in TaskIds :
       tasks[t].exc \notin {"validation query", "save last_validation"}


\* sub occurs in s
Contains(s, sub) ==
    \E i \in 1..(Len(s) - Len(sub) + 1) : SubSeq(s, i, i + Len(sub) - 1) = sub

Trimmed(v) == Strip(PyStr(v))

\* every candidate field that is non-blank after trimming in src is present,
\* non-blank and equal after trimming in cand
Agrees(src, cand) ==
    \A k \in Range(possible_keys) :
       (k \in DOMAIN src /\ Trimmed(src[k]) # "")
          => /\ k \in DOMAIN cand
             /\ Trimmed(cand[k]) # ""
             /\ Trimmed(cand[k]) = Trimmed(src[k])

\* the documents of type T, other than d, of d's owner, that agree with d
Agreeing(d, T) ==
    {c \in DOMAIN documents \ {d} :
        /\ documents[c].doc_type = T
        /\ documents[c].uploader = documents[d].uploader
        /\ Agrees(documents[d].metadata, documents[c].metadata)}

FullResult == result # Null /\ "match_keys" \in DOMAIN result

\* C6: for a source document with non-empty metadata and each type other than
\* its own, the type is reported matched iff a different document of that type
\* and owner agrees with the source on every match key; the reported doc_id is
\* such a document; missing_types lists exactly the types not matched; keys
\* outside match_keys are ignored.
C6_MatchedIffAgreeingDocument ==
    FullResult =>
       LET d == call.document_id
       IN  /\ documents[d].doc_type \notin Range(result.missing_types)
           /\ \A T \in Range(required_types) \ {documents[d].doc_type} :
                 /\ T \in DOMAIN result.found_types <=> Agreeing(d, T) # {}
                 /\ T \in DOMAIN result.found_types
                       => /\ result.found_types[T].doc_id \in Agreeing(d, T)
                          /\ result.found_types[T].matched
                 /\ T \in Range(result.missing_types) <=> Agreeing(d, T) = {}

\* a packing list of another owner agrees but is passed over, the owner's own
\* packing list (whose values need trimming, and which differs in a key outside
\* match_keys) is reported, and the bill of lading is unmatched
C6_Witness ==
    /\ FullResult
    /\ call.document_id = 1
    /\ documents[2].uploader = "bob"
    /\ Agrees(documents[1].metadata, documents[2].metadata)
    /\ TYPE_PACKING \in DOMAIN result.found_types
    /\ result.found_types[TYPE_PACKING].doc_id = 3
    /\ documents[1].metadata =
          [hs_code |-> "8501", currency |-> " USD ", remarks |-> "fragile"]
    /\ documents[3].metadata =
          [hs_code |-> " 8501", currency |-> "USD", value |-> "100", remarks |-> "none"]
    /\ TYPE_BOL \in Range(result.missing_types)

\* C7: ready_for_approval is true iff missing_files and missing_types are both
\* empty; when ready the message is the success sentence; otherwise it holds
\* the missing-files clause iff missing_files is non-empty and the types clause
\* iff missing_types is non-empty, the two joined by " | ".
C7_ReadyIffNothingMissing ==
    FullResult =>
       LET mf == result.missing_files # <<>>
           mt == result.missing_types # <<>>
           files_clause == MsgMissingFiles \o PyListRepr(result.missing_files)
           types_clause == MsgMissingTypes \o JoinWith(result.missing_types, ", ", 1)
       IN  /\ result.ready_for_approval <=> (~mf /\ ~mt)
           /\ result.ready_for_approval => result.message = MsgReady
           /\ ~result.ready_for_approval
                 => /\ Contains(result.message, MsgMissingFiles) <=> mf
                    /\ Contains(result.message, MsgMissingTypes) <=> mt
                    /\ (mf /\ mt) => result.message = files_clause \o " | " \o types_clause
                    /\ Contains(result.message, " | ") <=> (mf /\ mt)

\* a result with files missing and types unmatched
C7_Witness ==
    /\ FullResult
    /\ result.missing_files = <<"goods_description", "currency">>
    /\ result.missing_types # <<>>
    /\ ~result.ready_for_approval

C11_NoMetadataShortCircuits ==
    (result # Null /\ documents[call.document_id].metadata \in {NoMap, Null})
       => LET d == call.document_id
              existing == {files[f].field_name :
                             f \in {g \in DOMAIN files : files[g].document = d}}
          IN  /\ DOMAIN result = {"missing_files", "ready_for_approval", "reason", "message"}
              /\ ~result.ready_for_approval
              /\ result.reason = "metadata_missing"
              /\ result.missing_files =
                    SelectSeq(REQUIRED_FIELDS[documents[d].doc_type],
                              LAMBDA f : f \notin existing)
              /\ validation_results[Len(validation_results)] =
                    [document |-> d, result |-> result, run_by |-> Null]
              /\ documents[d].last_validation = result

\* an invoice whose metadata is null, with two of its four files, was validated
C11_Witness ==
    /\ result # Null
    /\ call.document_id = 1
    /\ documents[1].metadata = Null
    /\ result.missing_files = <<"goods_description", "currency">>
    /\ documents[1].last_validation = result
    /\ Len(validation_results) = 1

\* ------------------------------------------------------------------------
\* The extraction step alone (src/tasks.py:139-145), over bounded file contents
\* ------------------------------------------------------------------------

\* texts of 28, 29, 30 and 31 characters
Text28 == "INVOICE NO 77 DATED 1 MAY 24"

Text29 == "INVOICE NO 77 DATED 1 MAY 24."

Text30 == "INVOICE NO 771 DATED 1 MAY 24."

Text31 == "INVOICE NO 7712 DATED 1 MAY 24."

\* what the pages of a PDF give to direct extraction
PageTexts ==
    {<<>>, <<"">>, <<"HS 8501">>, <<Text29>>, <<Text30>>, <<Text31>>,
     <<" " \o Text29 \o "\n">>, <<Text28, "">>, <<Text28, "7">>}

\* what recognition reads on the rendered pages
ScanTexts ==
    {<<"">>, <<"HS 85011">>, <<"scanned: " \o Text28 \o "\n">>, <<"Scan of invoice 77 of 1 May 24">>,
     <<"Scan of invoice no 77, 1 May.">>, <<Text28, "x", "">>, <<"HS 8501">>}

ExtractInputs ==
    {[pdf |-> TRUE, pages |-> p, scans |-> q, image |-> Unreadable] :
        p \in PageTexts, q \in ScanTexts}
    \cup {[pdf |-> FALSE, pages |-> <<>>, scans |-> <<>>, image |-> i] :
             i \in {Unreadable, "", " HS 8501\n", Text31}}

InitExtract ==
    /\ call \in {[bytes |-> b] : b \in ExtractInputs}
    /\ result = Null
    /\ documents = ScenarioDocuments(NoMap)
    /\ files = ScenarioFiles
    /\ validation_results = <<>>
    /\ audit_log = EmptyBag
    /\ tasks = [t \in TaskIds |-> NewFrame]
    /\ faults = 0
    /\ edits = 0
    /\ pinned = [d \in 1..4 |-> NoMap]

\* lines 139-145 applied to the file
ExtractStep ==
    /\ result = Null
    /\ LET direct == extract_text_with_pymupdf(call.bytes)
           extracted == ExtractText(call.bytes)
       IN  result' = [direct |-> direct, ocr_attempted |-> OcrAttempted(direct),
                      extracted |-> extracted, stored |-> StoredText(extracted)]
    /\ UNCHANGED <<documents, files, validation_results, audit_log, tasks, faults,
                   edits, pinned, call>>

SpecExtract == InitExtract /\ [][ExtractStep]_vars

\* C12: recognition is attempted iff the direct text is empty or shorter than
\* 30 characters after trimming; the extracted text is then the longer of the
\* direct and the recognized text, the direct text staying in place when the
\* recognized text is no longer; a direct text of 30 or more characters is
\* used unchanged.
C12_LongerTextWins ==
    result # Null =>
       LET direct == result.direct
           recognized == ocr_pdf_images(call.bytes)
       IN  /\ result.ocr_attempted <=> Len(Strip(direct)) < 30
           /\ result.extracted \in {direct, recognized}
           /\ result.ocr_attempted
                 => /\ Len(result.extracted) >= Len(direct)
                    /\ Len(result.extracted) >= Len(recognized)
                    /\ Len(recognized) <= Len(direct) => result.extracted = direct
           /\ ~result.ocr_attempted => result.extracted = direct
           /\ Len(direct) >= 30 => result.extracted = direct

\* a direct text of 29 characters met a recognized text of the same length
\* and stayed in place
C12_Witness ==
    /\ result # Null
    /\ result.ocr_attempted
    /\ Len(result.direct) = 29
    /\ Len(ocr_pdf_images(call.bytes)) = 29
    /\ ocr_pdf_images(call.bytes) # result.direct
    /\ result.extracted = result.direct

\* ------------------------------------------------------------------------
\* parse_text_for_metadata alone (src/tasks.py:29-89), over bounded texts
\* ------------------------------------------------------------------------

ExampleText == "Invoice Consignee: ABC Trading LLC  HS: 8501 Value 1,250.00 USD"

ParseTexts ==
    {pre \o mid \o post :
        pre \in {"", "Invoice ", "Ref A12\n"},
        mid \in {"", "HS: 8501 ", "HS 85  ", "No. 12,5 "},
        post \in {"Value 1,250.00 USD", "Value $ 1,250.00", "Total 99", "$1.250,00 net",
                  ",,,a 777", "EUR 12.5", "Value: 1,25"}}
    \cup {ExampleText}

InitParse ==
    /\ call \in {[text |-> t] : t \in ParseTexts}
    /\ result = Null
    /\ documents = ScenarioDocuments(NoMap)
    /\ files = ScenarioFiles
    /\ validation_results = <<>>
    /\ audit_log = EmptyBag
    /\ tasks = [t \in TaskIds |-> NewFrame]
    /\ faults = 0
    /\ edits = 0
    /\ pinned = [d \in 1..4 |-> NoMap]

ParseStep ==
    /\ result = Null
    /\ result' = parse_text_for_metadata(call.text)
    /\ UNCHANGED <<documents, files, validation_results, audit_log, tasks, faults,
                   edits, pinned, call>>

SpecParse == InitParse /\ [][ParseStep]_vars

\* the tokens of sn that a value may be read from: <<a, n>> where the n >= 3
\* characters from a are digits, dots and commas and end at a word boundary
ValueTokens(sn) ==
    {an \in (1..Len(sn)) \X (3..Len(sn)) :
        /\ an[1] + an[2] - 1 <= Len(sn)
        /\ \A i \in an[1]..(an[1] + an[2] - 1) : Ch(sn, i) \in Digits \cup {".", ","}
        /\ Boundary(sn, an[1] + an[2])}

\* the first token, taken as long as it can be
FirstValueToken(sn) ==
    CHOOSE an \in ValueTokens(sn) :
       \A bm \in ValueTokens(sn) :
          an[1] < bm[1] \/ (an[1] = bm[1] /\ an[2] >= bm[2])

\* s without the characters that are neither digits nor dots
DigitsAndDots(s) ==
    LET keep == SelectSeq([i \in 1..Len(s) |-> Ch(s, i)],
                          LAMBDA c : c \in Digits \cup {"."})
    IN  JoinWith(keep, "", 1)

ValueRule ==
    LET sn == Normalize(call.text)
    IN  IF ValueTokens(sn) = {}
        THEN "value" \notin DOMAIN result
        ELSE LET an == FirstValueToken(sn)
                 cleaned == DigitsAndDots(Slice(sn, an[1], an[1] + an[2] - 1))
             IN  IF cleaned = "" THEN "value" \notin DOMAIN result
                 ELSE "value" \in DOMAIN result /\ result.value = cleaned

\* C13 as stated: the value is the first token of the normalized text made of
\* an optional currency symbol and at least 3 digits, dots and commas, with
\* the characters other than digits and dots removed; and the example text
\* gives hs_code "8501", currency "USD", consignee "ABC Trading LLC" and
\* value "1250.00".
C13_ValueOfExampleIs1250 ==
    result # Null =>
       /\ ValueRule
       /\ call.text = ExampleText
             => result = [hs_code |-> "8501", currency |-> "USD",
                          consignee |-> "ABC Trading LLC", value |-> "1250.00"]

\* C13 amended: the same rule; the example text gives value "8501", the digits
\* after "HS:" being the first such token.
C13_ValueIsFirstToken ==
    result # Null =>
       /\ ValueRule
       /\ call.text = ExampleText
             => result = [hs_code |-> "8501", currency |-> "USD",
                          consignee |-> "ABC Trading LLC", value |-> "8501"]

\* the example text has been parsed
C13_Witness ==
    /\ result # Null
    /\ call.text = ExampleText
    /\ result.value = "8501"
    /\ result.consignee = "ABC Trading LLC"

\* ------------------------------------------------------------------------
\* The task invoked with an id no DocumentFile has
\* ------------------------------------------------------------------------

NotFoundResult(id) == [error |-> "DocumentFile not found", id |-> id]

\* C14: an invocation of the pipeline task with a DocumentFile id that does not
\* exist returns the structured "not found" result in its first step and does
\* nothing else: it never raises, it stores no text, runs no validation and
\* creates no ValidationResult, and the step in which it returns leaves every
\* document, DocumentFile, ValidationResult and audit entry as it was.
C14_NotFoundDoesNothing ==
    /\ [](\A t \in TaskIds :
            tasks[t].pc # "queued" /\ tasks[t].id \notin DOMAIN files
            => /\ tasks[t].pc = "returned"
               /\ tasks[t].ret = NotFoundResult(tasks[t].id)
               /\ tasks[t].wrote = <<>>
               /\ tasks[t].validated = Null
               /\ tasks[t].row = 0)
    /\ [][\A t \in TaskIds :
            tasks[t].pc = "queued" /\ tasks'[t].pc # "queued"
            /\ tasks'[t].id \notin DOMAIN files
            => UNCHANGED <<documents, files, validation_results, audit_log>>]_vars

\* a run on the missing id has returned after another run changed the store
C14_Witness ==
    \E t, u \in TaskIds :
        /\ tasks[t].pc = "returned"
        /\ tasks[t].id = MissingFileId
        /\ tasks[t].ret = NotFoundResult(MissingFileId)
        /\ ReturnedDone(u)
        /\ u < t

\* ------------------------------------------------------------------------
\* The order of the steps of one run
\* ------------------------------------------------------------------------

\* the steps of a run that does not fail, in order
StepOrder ==
    {<<"queued", "set_running">>, <<"set_running", "extract">>, <<"extract", "merge">>,
     <<"merge", "validate">>, <<"validate", "val_create">>,
     <<"val_create", "val_save">>, <<"val_save", "returned">>}

\* the metadata m holds every key of n with n's value
Includes(m, n) == \A k \in DOMAIN n : k \in DOMAIN m /\ m[k] = n[k]

\* C15: in every run that does not fail the steps follow each other in the
\* order running, text stored and done, parsed keys merged and persisted,
\* validation; validation runs exactly once, also when nothing was parsed or
\* merged, and the metadata it reads holds what the run's merge produced.
C15_StepsInOrderValidationReadsMerged ==
    /\ [](\A t \in TaskIds :
            ReturnedDone(t) => tasks[t].wrote # <<>> /\ tasks[t].validated # Null)
    /\ [][\A t \in TaskIds :
            LET a == tasks[t]
                b == tasks'[t]
            IN  /\ (a.pc # b.pc /\ b.pc \notin {"handler", "raised"})
                       => \/ <<a.pc, b.pc>> \in StepOrder
                          \/ a.pc \in {"queued", "handler"} /\ b.pc = "returned"
                /\ (a.pc = "set_running" /\ b.pc = "extract")
                       => files'[a.id].extraction_status = STATUS_RUNNING
                /\ (a.pc = "extract" /\ b.pc = "merge")
                       => /\ files'[a.id].extraction_status = STATUS_DONE
                          /\ files'[a.id].extracted_text = StoredText(b.extracted)
                /\ (a.pc = "merge" /\ b.pc = "validate")
                       => /\ b.meta = MergeMetadata(a.meta, b.parsed).meta
                          /\ b.meta # a.meta => documents'[a.doc].metadata = b.meta
                /\ (a.pc = "validate" /\ b.pc = "val_create")
                       => Includes(documents[a.doc].metadata, a.meta)]_vars

\* ------------------------------------------------------------------------
\* Failed audit writes
\* ------------------------------------------------------------------------

\* C16: whether an audit write fails or succeeds cannot be seen in the primary
\* outcome: once the write that precedes an audit entry is done (the metadata
\* at line 160, last_validation at line 269, the failed status at line 171),
\* the rest of the step is the same function of the state before it whether or
\* not the entry is written: the same next step or returned payload, the same
\* metadata, last_validation and file status, and no change to the
\* DocumentFiles' text or the ValidationResult history.
C16_AuditFailureNotObservable ==
    [][\A t \in TaskIds :
          LET a == tasks[t]
              b == tasks'[t]
          IN  a # b =>
              /\ (a.pc = "merge" /\ documents' # documents)
                    => /\ b.pc = "validate"
                       /\ b.parsed = Parse(a.extracted)
                       /\ b.meta = MergeMetadata(a.meta, b.parsed).meta
                       /\ documents' = [documents EXCEPT ![a.doc].metadata = b.meta]
                       /\ UNCHANGED <<files, validation_results>>
              /\ (a.pc = "val_save" /\ documents' # documents)
                    => /\ b.pc = "returned"
                       /\ b.ret = [status |-> "done", document_file_id |-> a.id,
                                   parsed |-> a.parsed]
                       /\ documents' = [documents EXCEPT ![a.doc].last_validation = a.results]
                       /\ UNCHANGED <<files, validation_results>>
              /\ (a.pc = "handler" /\ files' # files)
                    => /\ b.pc = "returned"
                       /\ b.ret = [status |-> "failed", error |-> a.exc]
                       /\ files' = [files EXCEPT ![a.id].extraction_status = STATUS_FAILED]
                       /\ UNCHANGED <<documents, validation_results>>]_vars

\* the only run so far merged new keys, validated and returned done, and one of
\* its two audit writes failed
C16_Witness ==
    \E t \in TaskIds :
        /\ ReturnedDone(t)
        /\ \A u \in TaskIds \ {t} : tasks[u].pc = "queued"
        /\ tasks[t].row # 0
        /\ documents[tasks[t].doc].metadata \notin InitMetas
        /\ documents[tasks[t].doc].last_validation = tasks[t].validated
        /\ faults = 1
        /\ BagCardinality(audit_log) = 1

\* ------------------------------------------------------------------------
\* What a validation run writes
\* ------------------------------------------------------------------------

\* C17: a validation run appends one ValidationResult and one audit entry and
\* overwrites last_validation of the validated document; that document's
\* metadata, status, type and owner, every DocumentFile and every other
\* document stay as they were.
C17_ValidationWritesOnlyItsResult ==
    [][LET d == call'.document_id
       IN  /\ Len(validation_results') = Len(validation_results) + 1
           /\ SubSeq(validation_results', 1, Len(validation_results)) = validation_results
           /\ validation_results'[Len(validation_results')].document = d
           /\ BagCardinality(audit_log') = BagCardinality(audit_log) + 1
           /\ files' = files
           /\ DOMAIN documents' = DOMAIN documents
           /\ \A e \in DOMAIN documents :
                 /\ documents'[e].metadata = documents[e].metadata
                 /\ documents'[e].status = documents[e].status
                 /\ documents'[e].doc_type = documents[e].doc_type
                 /\ documents'[e].uploader = documents[e].uploader
                 /\ e # d => documents'[e] = documents[e]
           /\ documents'[d].last_validation = result']_vars

\* a validation of a document whose metadata is null has run: its
\* last_validation is set and its metadata is still null
C17_Witness ==
    /\ call # Null
    /\ Len(validation_results) = 1
    /\ documents[call.document_id].last_validation = result
    /\ documents[call.document_id].metadata = Null
    /\ BagCardinality(audit_log) = 1

\* ------------------------------------------------------------------------
\* Upload and review (src/documents/views.py), with the Validation Engine
\* ------------------------------------------------------------------------

STATUS_UPLOADED == "uploaded"

STATUS_APPROVED == "approved"

STATUS_REJECTED == "rejected"

ROLE_ADMIN == "admin"

ROLE_UPLOADER == "uploader"

ROLE_REVIEWER == "reviewer"

\* REQUIRED_FIELDS of src/documents/views.py
UploadRequiredFields ==
    [t \in {TYPE_INVOICE, TYPE_PACKING, TYPE_BOL, TYPE_DELIVERY} |->
        CASE t = TYPE_INVOICE  -> <<"hs_code", "goods_description", "unit_of_measure",
                                    "quantity", "weight", "value", "currency">>
          [] t = TYPE_PACKING  -> <<"hs_code", "goods_description", "unit_of_measure",
                                    "quantity", "gross_weight", "net_weight",
                                    "number_of_packages">>
          [] t = TYPE_BOL      -> <<"shipper", "consignee", "hs_code", "weight",
                                    "number_of_packages", "bol_awb_number">>
          [] t = TYPE_DELIVERY -> <<"consignee", "container_number", "port_of_discharge",
                                    "currency", "value", "hs_code">>]

\* bounds of the scenario
MaxUploads == 2

MaxDecisions == 2

DigitSeq == "0123456789"

\* Decimal(str(v)) of a string of digits, as an integer
RECURSIVE ToNat(_, _)
ToNat(s, n) ==
    IF n = 0 THEN 0 ELSE 10 * ToNat(s, n - 1) + (IndexIn(DigitSeq, Ch(s, n), 1) - 1)

RECURSIVE NatStr(_)
NatStr(n) ==
    IF n < 10 THEN Ch(DigitSeq, n + 1)
    ELSE NatStr(n \div 10) \o Ch(DigitSeq, (n % 10) + 1)

\* str of a Decimal quantized to 0.01, given in hundredths
Money(cents) ==
    NatStr(cents \div 100) \o "." \o Ch(DigitSeq, ((cents \div 10) % 10) + 1)
        \o Ch(DigitSeq, (cents % 10) + 1)

\* n/d rounded to an integer, ROUND_HALF_EVEN (Decimal.quantize)
HalfEven(n, d) ==
    LET q == n \div d
        r == n % d
    IN  IF 2 * r > d \/ (2 * r = d /\ q % 2 = 1) THEN q + 1 ELSE q

\* the CurrencyRate of USD, 3.6725, in ten-thousandths
UsdRateToAed == 36725

\* what get_rate_to_aed may do: return the rate (TRUE), or raise because there
\* is no CurrencyRate row and no answer from the API (FALSE)
RateOutcomes == BOOLEAN

\* calculate_duties_from_hs, amounts in hundredths
calculate_duties_from_hs(hs_code, value_in_aed) ==
    LET pct == IF Truthy(hs_code) /\ Slice(Strip(PyStr(hs_code)), 1, 2) = "85"
               THEN 5 ELSE 10
    IN  [duty_percentage |-> IF pct = 5 THEN "0.05" ELSE "0.10",
         duties |-> HalfEven(value_in_aed * pct, 100)]

\* dict.get(k) or '' of a metadata mapping
GetOr(metadata, k) == IF k \in DOMAIN metadata THEN metadata[k] ELSE ""

\* the metadata a client may send with an upload
UploadMetas ==
    {NoMap, [hs_code |-> "8501", currency |-> "USD", value |-> "100"]}

\* the file parts a client may send for a type: every upload-time required
\* field, these and the field the Validation Engine requires, or all but one
UploadFileSets(doc_type) ==
    LET required == Range(UploadRequiredFields[doc_type])
    IN  {required, required \cup Range(REQUIRED_FIELDS[doc_type]),
         required \ {UploadRequiredFields[doc_type][1]}}

UploadRequests ==
    {[doc_type |-> t, metadata |-> m, FILES |-> F] :
        t \in DOMAIN UploadRequiredFields, m \in UploadMetas,
        F \in UNION {UploadFileSets(u) : u \in DOMAIN UploadRequiredFields}}

InitUpload ==
    /\ documents = <<>>
    /\ files = <<>>
    /\ validation_results = <<>>
    /\ audit_log = EmptyBag
    /\ tasks = [t \in TaskIds |-> NewFrame]
    /\ faults = 0
    /\ edits = 0
    /\ pinned = [d \in 1..4 |-> NoMap]
    /\ call = Null
    /\ result = Null

\* DocumentUploadView.post; the request's form carries no currency, value or
\* hs_code field besides the metadata
Upload(user, request) ==
    /\ Len(documents) < MaxUploads
    /\ call' = request
    /\ LET doc_type == request.doc_type
           metadata == request.metadata
           required == UploadRequiredFields[doc_type]
           missing_files == SelectSeq(required, LAMBDA f : f \notin request.FILES)
           id == Len(documents) + 1
           trade_doc == Document(doc_type, user, metadata)
           created_files == [i \in 1..Len(required) |-> DocumentFile(id, required[i])]
           currency == GetOr(metadata, "currency")
           value == GetOr(metadata, "value")
       IN  IF Len(missing_files) > 0
           THEN /\ result' = [status |-> 400,
                              detail |-> "Missing required files for " \o doc_type
                                         \o ": " \o PyListRepr(missing_files)]
                /\ UNCHANGED <<documents, files, audit_log>>
           ELSE /\ files' = files \o created_files
                /\ IF doc_type = TYPE_DELIVERY /\ Truthy(currency) /\ Truthy(value)
                   THEN \E fetched \in RateOutcomes :
                          IF ~fetched
                          THEN /\ documents' = Append(documents, trade_doc)
                               /\ AuditCreate(TRUE, "currency_conversion_failed", id)
                               /\ result' = [status |-> 201,
                                             detail |-> "Uploaded but currency/duties calculation failed"]
                          ELSE LET raw_value == ToNat(PyStr(value), Len(PyStr(value)))
                                   value_in_aed == HalfEven(raw_value * UsdRateToAed, 100)
                                   duties_res == calculate_duties_from_hs(
                                                    GetOr(metadata, "hs_code"), value_in_aed)
                                   computed == [value_in_aed |-> Money(value_in_aed),
                                                duties |-> Money(duties_res.duties),
                                                duty_percentage |-> duties_res.duty_percentage]
                               IN  /\ documents' =
                                         Append(documents,
                                                [trade_doc EXCEPT !.metadata = computed @@ metadata])
                                   /\ AuditCreate(TRUE, "uploaded_document", id)
                                   /\ result' = [status |-> 201, detail |-> "Uploaded",
                                                 document_id |-> id]
                   ELSE /\ documents' = Append(documents, trade_doc)
                        /\ AuditCreate(TRUE, "uploaded_document", id)
                        /\ result' = [status |-> 201, detail |-> "Uploaded",
                                      document_id |-> id]
    /\ UNCHANGED <<validation_results, tasks, faults, edits, pinned>>

\* ApproveRejectView.post by a user with the given role; no document has an
\* assigned reviewer and the request carries no comment
ApproveReject(pk, role, action) ==
    /\ edits < MaxDecisions
    /\ edits' = edits + 1
    /\ call' = [pk |-> pk, role |-> role, action |-> action]
    /\ IF pk \notin DOMAIN documents
       THEN /\ result' = [status |-> 404]
            /\ UNCHANGED <<documents, audit_log>>
       ELSE IF role # ROLE_ADMIN /\ role # ROLE_REVIEWER
       THEN /\ result' = [status |-> 403, detail |-> "Not permitted"]
            /\ UNCHANGED <<documents, audit_log>>
       ELSE IF action \notin {"approve", "reject"}
       THEN /\ result' = [status |-> 400, detail |-> "Invalid action"]
            /\ UNCHANGED <<documents, audit_log>>
       ELSE /\ documents' = [documents EXCEPT
                               ![pk].status = IF action = "approve" THEN STATUS_APPROVED
                                              ELSE STATUS_REJECTED]
            /\ AuditCreate(TRUE, action \o "_document", pk)
            /\ result' = [status |-> 200, detail |-> "Document " \o action \o "d"]
    /\ UNCHANGED <<files, validation_results, tasks, faults, pinned>>

NextUpload ==
    \/ \E request \in UploadRequests : Upload("alice", request)
    \/ \E pk \in 1..MaxUploads, role \in {ROLE_ADMIN, ROLE_REVIEWER, ROLE_UPLOADER},
          action \in {"approve", "reject", "hold"} : ApproveReject(pk, role, action)
    \/ \E d \in DOMAIN documents : RunValidation(d)

SpecUpload == InitUpload /\ [][NextUpload]_vars

\* C18: the lifecycle status of a document only follows uploaded -> pending ->
\* approved | rejected: a new document starts as uploaded or pending, an
\* approved or rejected document keeps its status, and a document becomes
\* approved or rejected only from pending.
C18_LifecycleOnlyForward ==
    [][\A d \in DOMAIN documents' :
          IF d \notin DOMAIN documents
          THEN documents'[d].status \in {STATUS_UPLOADED, STATUS_PENDING}
          ELSE documents'[d].status # documents[d].status
                  => \/ /\ documents[d].status = STATUS_UPLOADED
                        /\ documents'[d].status = STATUS_PENDING
                     \/ /\ documents[d].status = STATUS_PENDING
                        /\ documents'[d].status \in {STATUS_APPROVED, STATUS_REJECTED}]_vars

\* C19: for every document created by the upload operation, the Validation
\* Engine computes missing_files as empty.
C19_UploadedDocumentsMissNoFiles ==
    \A i \in 1..Len(validation_results) :
        validation_results[i].result.missing_files = <<>>

\* ------------------------------------------------------------------------
\* Validation of a document without match keys
\* ------------------------------------------------------------------------

\* the documents of type T, other than d, of d's owner
OthersOfType(d, T) ==
    {c \in DOMAIN documents \ {d} :
        documents[c].doc_type = T /\ documents[c].uploader = documents[d].uploader}

\* the member of S that comes first in the sequence order
FirstIn(order, S) ==
    order[Min({i \in 1..Len(order) : order[i] \in S})]

\* the metadata is non-empty and holds no candidate field with a non-blank value
NoMatchKeys(meta) ==
    /\ meta \notin {NoMap, Null}
    /\ \A k \in Range(possible_keys) : k \in DOMAIN meta => Trimmed(meta[k]) = ""

\* C20: when the validated document's metadata is non-empty and none of the
\* seven candidate fields is present with a non-blank value, match_keys is
\* empty, every other type of which the owner has another document is reported
\* as matched with the first such document in the store's iteration order,
\* whatever that document's metadata, and a type is in missing_types exactly
\* when the owner has no other document of it.
C20_NoMatchKeysMatchFirstDocument ==
    (result # Null /\ NoMatchKeys(documents[call.document_id].metadata))
       => LET d == call.document_id
          IN  /\ FullResult
              /\ result.match_keys = NoMap
              /\ \A T \in Range(required_types) \ {documents[d].doc_type} :
                    /\ OthersOfType(d, T) # {}
                          => /\ T \in DOMAIN result.found_types
                             /\ result.found_types[T] =
                                   [doc_id |-> FirstIn(call.order, OthersOfType(d, T)),
                                    matched |-> TRUE]
                    /\ T \in Range(result.missing_types) <=> OthersOfType(d, T) = {}

\* the invoice has no match keys and the owner has two packing lists with
\* different metadata: the one iterated first is reported, and nothing is missing
C20_Witness ==
    /\ result # Null
    /\ call.document_id = 1
    /\ documents[1].metadata = UnkeyedMeta
    /\ OthersOfType(1, TYPE_PACKING) = {2, 3}
    /\ documents[2].metadata # documents[3].metadata
    /\ call.order[1] > call.order[2]
    /\ result.found_types[TYPE_PACKING].doc_id = 3
    /\ result.missing_types = <<>>

=============================================================================
